---- MODULE Spec2Model ----
(***************************************************************************)
(* A model of the concurrent runtime of video_recording_gui:               *)
(*   backend/ni_control.py     NIDaqDO        (digital output line)        *)
(*   backend/pulse_manager.py  PulseManager   (queue-driven pulse worker)  *)
(*   backend/camera_control.py CameraController (acquisition loop,         *)
(*                             recording flags, sync window)               *)
(*                                                                         *)
(* Granularity.  Threads interleave between Python statements: one step of *)
(* a thread is one source statement (or one straight-line group that       *)
(* touches no state another thread reads or writes).  A block under a lock *)
(* is one step.  Blocking calls (Queue.get, Thread.join, time.sleep,       *)
(* GetNextImage) are one step that is enabled when the call can return.    *)
(*                                                                         *)
(* Eight specifications share the module; each leaves the variables of     *)
(* the other components at their constructed values:                       *)
(*   SpecPulse  PulseManager + NIDaqDO, one caller thread, worker threads  *)
(*   SpecLine   NIDaqDO called directly, hardware-backed variant and stub  *)
(*              side by side                                               *)
(*   SpecSync   CameraController.notify_sync_pulse_window, two callers     *)
(*   SpecCam    CameraController start/stop, start_recording,              *)
(*              stop_recording and the acquisition loop                    *)
(*   SpecStamp  the acquisition loop recording frames while the clock      *)
(*              advances and sync windows are notified                     *)
(*   SpecRace   the hardware-backed NIDaqDO statement by statement: one    *)
(*              thread calling start/stop, others set_high/set_low         *)
(*   SpecExit   CameraController start/stop/start_recording with the       *)
(*              acquisition loop scheduled fairly                          *)
(*   SpecGui    MainWindow click handlers driving the CameraController     *)
(***************************************************************************)
EXTENDS Integers, Sequences, FiniteSets, TLC

(***************************************************************************)
(* Bounds of the model (not program constants).                            *)
(***************************************************************************)
\* request_pulse calls made by the caller thread
MaxCalls == 2
\* worker threads ever created by PulseManager.start
MaxThreads == 2
\* threads calling notify_sync_pulse_window concurrently
MaxNotifiers == 2
\* ticks of the wall clock
MaxTime == 3
\* complete frames the camera delivers before frame_counter is reset
MaxFrames == 2
\* calls made directly on the digital output line
MaxLineCalls == 5
\* threads calling set_high / set_low while another thread starts and stops
\* the line
MaxSetters == 2
\* Task objects the line creates (calls of start on a stopped line)
MaxHandles == 2

(***************************************************************************)
(* Program constants.  Time unit of pulse widths: 5 ms.                    *)
(***************************************************************************)
\* PulseManager(default_width_s=0.005)
DefaultWidth == 1
\* self._thread.join(timeout=1.0)
JoinTimeout == 200

None == "None"
ShutdownLabel == "__shutdown__"

\* self._thread = None
NoThread == 0
\* self._task = None (ni_control.py:26); Task objects are numbered from 1
NoTask == 0
\* self._lock is held by no thread (ni_control.py:27)
Unlocked == 0

\* request_pulse(width_s, label) calls a caller makes: the default width
\* (width_s None) with an ordinary label and with the label the shutdown
\* sentinel carries, a negative width, zero, and a pulse that outlasts
\* stop()'s join timeout
RequestArgs ==
    {[none |-> TRUE, v |-> 0, label |-> "manual_sync"],
     [none |-> TRUE, v |-> 0, label |-> ShutdownLabel],
     [none |-> FALSE, v |-> 0 - 1, label |-> "manual_sync"],
     [none |-> FALSE, v |-> 0, label |-> "manual_sync"],
     [none |-> FALSE, v |-> 2 * JoinTimeout, label |-> "manual_sync"]}

Workers == 1 .. MaxThreads

Notifiers == 1 .. MaxNotifiers
\* the thread that starts and stops the line, and the threads that set it
Ctl == 1
Setters == 2 .. MaxSetters + 1
RaceThreads == {Ctl} \cup Setters
\* the widths passed to notify_sync_pulse_window, in clock ticks
SyncWidths == {0, 2}
SyncLabels == {"x", "y"}

\* arguments of CameraController.start_recording
Paths == {"a.avi", "b.avi"}
FpsValues == {30, 60}

VARIABLES
    \* ---- NIDaqDO (hardware-backed variant) ----
    cfg_idle_low,      \* DOLine.idle_low
    daq_started,       \* NIDaqDO._started
    daq_task,          \* NIDaqDO._task: None or a task handle
    line,              \* level of the physical line: "LOW" / "HIGH"
    \* ---- PulseManager ----
    pm_started,        \* PulseManager._started
    pm_stop_event,     \* PulseManager._stop_event
    pm_queue,          \* PulseManager._queue
    pm_thread,         \* PulseManager._thread: NoThread or a worker
    pm_pulse_active,   \* PulseManager._pulse_active
    wk_pc,             \* position of each worker thread in _run
    wk_req,            \* the request a worker holds (local req)
    wk_exc,            \* the worker is leaving the try block on the exception
                       \* of the active-level write
    wk_idle,           \* what the worker's idle-level write did: "written",
                       \* "raised" or "skipped" (the line object is stopped)
    pm_pc,             \* position of the caller thread inside stop()
    pm_last,           \* last completed PulseManager call and its outcome
    \* ---- history of the PulseManager run ----
    calls,             \* outcome of each request_pulse call so far; a
                       \* call's id is its position
    nthreads,          \* worker threads created so far
    served,            \* ids in the order their active-level write was attempted
    restored,          \* ids whose idle-level write has been attempted
    cleared,           \* ids after whose handling the flag was cleared
    discarded,         \* ids a worker dequeued and threw away while the
                       \* stop signal was clear
    \* ---- NIDaqDO called directly, next to the stub variant ----
    stub_started,      \* _started of the stub NIDaqDO
    do_calls,          \* calls made on the line so far
    do_last,           \* the last call made on the line and what it did
    hw_error,          \* some hardware operation has raised
    ni_started,        \* NIDaqDO._started, statement by statement
    ni_task,           \* NIDaqDO._task: NoTask or the number of a Task
    ni_lock,           \* NIDaqDO._lock: NoThread or the thread holding it
    ni_created,        \* Task objects created so far
    ni_open,           \* Task objects created and not closed
    ni_line,           \* level of the physical line
    ni_pc,             \* position of each thread inside NIDaqDO
    ni_t,              \* each thread's local t
    ni_level,          \* the level the thread's set_high / set_low writes
    ni_stopped,        \* a stop that closed the Task has returned and no
                       \* start was called since
    mw_state,          \* MainWindow.state
    mw_preview_running,  \* MainWindow.preview_running
    mw_handler,        \* the click handler of MainWindow that is running
    \* ---- CameraController sync window ----
    now,               \* the wall clock, time.time()
    sync_window_end,   \* CameraController._sync_window_end
    sync_label,        \* CameraController._sync_label
    nt_pc,             \* position of each thread inside notify_sync_pulse_window
    nt_now,            \* its local now
    nt_width,          \* its argument width_s
    nt_label,          \* its argument label
    last_end,          \* end_time of the call applied last (0: none yet)
    \* ---- CameraController ----
    system,            \* self.system is not None
    cam_list,          \* self.cam_list is not None
    cam,               \* self.cam is not None
    acquiring,         \* self.acquiring
    streaming,         \* the camera is between BeginAcquisition and
                       \* EndAcquisition
    acq_thread,        \* self._acq_thread is not None
    cam_stop_event,    \* self._stop_event
    recording_active,
    record_start_requested,
    record_stop_requested,
    avi_recorder,      \* None, "created", "open" or "closed"
    recording_fps,
    record_filename,
    metadata_records,
    frame_counter,
    lp_pc,             \* position of the acquisition thread
    gui_pc,            \* position of the calling (GUI) thread
    g_filename,        \* argument filename of the start_recording in progress
    g_fps,             \* argument fps of the start_recording in progress
    sr_result,         \* what the last start_recording returned
    start_result,      \* what the last start returned
    in_start,          \* stop() is running in the except clause of start()
    api_returned,      \* a call of start, stop, start_recording or
                       \* stop_recording has returned since the last click
    lp_now,            \* the loop's local now (line 390)
    lp_sync,           \* the loop's local sync_this_frame
    lp_label,          \* the loop's local sync_label
    lp_end,            \* the _sync_window_end that line 392 read
    lp_appended,       \* Append at line 398 returned without raising
    grab_no,           \* complete frames grabbed since the session opened
    flush,             \* what the stop being serviced wrote
    last_empty,        \* the last serviced stop closed a session without
                       \* a grabbed frame
    open_result        \* how Open ended (line 308) for the start request
                       \* last raised at line 273: None, "ok" or "failed"

daqVars == <<cfg_idle_low, daq_started, daq_task, line>>
pmVars == <<pm_started, pm_stop_event, pm_queue, pm_thread, pm_pulse_active,
            wk_pc, wk_req, wk_exc, wk_idle, pm_pc, pm_last>>
histVars == <<calls, nthreads, served, restored, cleared, discarded>>
pulseVars == <<daqVars, pmVars, histVars>>

callVars == <<stub_started, do_calls, do_last, hw_error>>
raceVars == <<ni_started, ni_task, ni_lock, ni_created, ni_open, ni_line,
              ni_pc, ni_t, ni_level, ni_stopped>>
guiVars == <<mw_state, mw_preview_running, mw_handler>>
\* the variables outside the PulseManager, the sync window and the
\* CameraController
lineVars == <<callVars, raceVars, guiVars>>

syncVars == <<now, sync_window_end, sync_label, nt_pc, nt_now, nt_width,
              nt_label, last_end>>
recVars == <<recording_active, record_start_requested, record_stop_requested,
             avi_recorder, recording_fps, record_filename, metadata_records,
             frame_counter>>
devVars == <<system, cam_list, cam, acquiring, streaming, acq_thread,
             cam_stop_event>>
lpVars == <<lp_now, lp_sync, lp_label, lp_end, lp_appended>>
logVars == <<grab_no, flush, last_empty, open_result>>
startVars == <<start_result, in_start>>
camVars == <<devVars, recVars, lp_pc, gui_pc, g_filename, g_fps, sr_result,
             lpVars, logVars, startVars, api_returned>>

vars == <<pulseVars, lineVars, syncVars, camVars>>

NoReq == [id |-> 0, width_s |-> 0, label |-> None]

\* no call has been made on the line yet
NoCall == [op |-> None, raised |-> FALSE, wrote |-> FALSE,
           started_before |-> FALSE]

\* no start_recording has returned yet
NoResult == [ok |-> FALSE, msg |-> None]

\* no stop is being serviced
NoFlush == [serviced |-> FALSE, grabs |-> 0, written |-> FALSE,
            path |-> None, rows |-> <<>>]

\* PulseRequest(width_s=0.0, label="__shutdown__")
Sentinel == [id |-> 0, width_s |-> 0, label |-> ShutdownLabel]

(***************************************************************************)
(* NIDaqDO, hardware-backed variant (ni_control.py, sys.platform win).     *)
(* A hardware write either takes effect or raises and leaves the line as   *)
(* it was; `ok` is the outcome the hardware chooses.                       *)
(***************************************************************************)
IdleLevel == IF cfg_idle_low THEN "LOW" ELSE "HIGH"

\* start(): what it does to the line object, and whether it raises
NIDaqDO_start_raises(outcome) == ~daq_started /\ outcome # "ok"

NIDaqDO_start(outcome) ==
    IF daq_started
    THEN UNCHANGED daqVars
    ELSE /\ daq_task' = "Task"
         /\ daq_started' = (outcome # "chan_error")
         /\ line' = IF outcome = "ok" THEN IdleLevel ELSE line
         /\ UNCHANGED cfg_idle_low

\* mutant of SetAllowed: only the task handle is looked at
SetAllowed_TaskOnly == daq_task # None

\* set_high() / set_low(): the guard `if not self._started or self._task is
\* None: return`, negated
SetAllowed == daq_started /\ daq_task # None

\* set_high() / set_low(): level is the level written
NIDaqDO_set_raises(ok) == SetAllowed /\ ~ok

NIDaqDO_set(level, ok) ==
    /\ line' = IF SetAllowed /\ ok THEN level ELSE line
    /\ UNCHANGED <<cfg_idle_low, daq_started, daq_task>>

NIDaqDO_set_high(ok) == NIDaqDO_set("HIGH", ok)

NIDaqDO_set_low(ok) == NIDaqDO_set("LOW", ok)

\* stop(): never raises; the idle write and the close are best effort
NIDaqDO_stop(ok) ==
    IF ~daq_started
    THEN UNCHANGED daqVars
    ELSE /\ daq_started' = FALSE
         /\ daq_task' = None
         /\ line' = IF daq_task # None /\ ok THEN IdleLevel ELSE line
         /\ UNCHANGED cfg_idle_low

(***************************************************************************)
(* NIDaqDO, stub variant (ni_control.py, other platforms), and the calls a *)
(* client makes directly on a line: each call is made on the hardware      *)
(* variant and on the stub alike.                                          *)
(***************************************************************************)
Stub_start == stub_started' = TRUE

\* mutant of Stub_stop: the stub stays started
Stub_stop_Noop == UNCHANGED stub_started

Stub_stop == stub_started' = FALSE

\* the stub's set_high / set_low print when started and change nothing
Stub_set == UNCHANGED stub_started

\* the bookkeeping of a direct call: what was called, whether the hardware
\* variant raised, whether it issued a hardware write, whether a hardware
\* operation failed inside it
LineCall(op, raised, wrote, failed) ==
    /\ do_calls < MaxLineCalls
    /\ do_calls' = do_calls + 1
    /\ do_last' = [op |-> op, raised |-> raised, wrote |-> wrote,
                   started_before |-> daq_started]
    /\ hw_error' = (hw_error \/ failed)
    /\ UNCHANGED <<pmVars, histVars, raceVars, guiVars, syncVars, camVars>>

DO_start(outcome) ==
    /\ NIDaqDO_start(outcome)
    /\ Stub_start
    /\ LineCall("start", NIDaqDO_start_raises(outcome),
                ~daq_started /\ outcome # "chan_error",
                NIDaqDO_start_raises(outcome))

DO_stop(ok) ==
    /\ NIDaqDO_stop(ok)
    /\ Stub_stop
    /\ LineCall("stop", FALSE, daq_started /\ daq_task # None,
                daq_started /\ daq_task # None /\ ~ok)

DO_set_high(ok) ==
    /\ NIDaqDO_set_high(ok)
    /\ Stub_set
    /\ LineCall("set_high", NIDaqDO_set_raises(ok), SetAllowed,
                NIDaqDO_set_raises(ok))

DO_set_low(ok) ==
    /\ NIDaqDO_set_low(ok)
    /\ Stub_set
    /\ LineCall("set_low", NIDaqDO_set_raises(ok), SetAllowed,
                NIDaqDO_set_raises(ok))

NextLine ==
    \/ \E outcome \in {"ok", "chan_error", "write_error"} : DO_start(outcome)
    \/ \E ok \in BOOLEAN : DO_stop(ok)
    \/ \E ok \in BOOLEAN : DO_set_high(ok)
    \/ \E ok \in BOOLEAN : DO_set_low(ok)

(***************************************************************************)
(* NIDaqDO, hardware-backed variant, statement by statement: one thread    *)
(* (Ctl) calls start and stop, the others call set_high and set_low at any *)
(* time.  A position "sNN", "pNN", "gNN" or "kNN" is the line of           *)
(* ni_control.py the thread executes next.                                 *)
(***************************************************************************)
\* a thread moves to position next; the other race variables are listed by
\* the caller
RaceStep(th, here, next) ==
    /\ ni_pc[th] = here
    /\ ni_pc' = [ni_pc EXCEPT ![th] = next]
    /\ UNCHANGED <<pulseVars, callVars, guiVars, syncVars, camVars>>

\* mutant of LockAvailable: the lock is taken whether or not it is held
LockAvailable_Always == TRUE

\* `with self._lock:` blocks until no thread holds the lock
LockAvailable == ni_lock = Unlocked

\* set_high() is called (line 70)
NI_set_high(th) ==
    /\ th \in Setters
    /\ RaceStep(th, "idle", "g71")
    /\ ni_level' = [ni_level EXCEPT ![th] = "HIGH"]
    /\ UNCHANGED <<ni_started, ni_task, ni_lock, ni_created, ni_open, ni_line,
                   ni_t, ni_stopped>>

\* set_low() is called (line 79)
NI_set_low(th) ==
    /\ th \in Setters
    /\ RaceStep(th, "idle", "g71")
    /\ ni_level' = [ni_level EXCEPT ![th] = "LOW"]
    /\ UNCHANGED <<ni_started, ni_task, ni_lock, ni_created, ni_open, ni_line,
                   ni_t, ni_stopped>>

\* lines 71 / 80, first operand: `not self._started`
NI_g71(th) ==
    /\ RaceStep(th, "g71", IF ni_started THEN "g71t" ELSE "idle")
    /\ ni_level' = [ni_level EXCEPT ![th] = IF ni_started THEN @ ELSE None]
    /\ UNCHANGED <<ni_started, ni_task, ni_lock, ni_created, ni_open, ni_line,
                   ni_t, ni_stopped>>

\* lines 71 / 80, second operand: `self._task is None`
NI_g71t(th) ==
    /\ RaceStep(th, "g71t", IF ni_task # NoTask THEN "k73" ELSE "idle")
    /\ ni_level' = [ni_level EXCEPT ![th] = IF ni_task # NoTask THEN @
                                           ELSE None]
    /\ UNCHANGED <<ni_started, ni_task, ni_lock, ni_created, ni_open, ni_line,
                   ni_t, ni_stopped>>

\* lines 73 / 82: the lock is acquired
NI_k73(th) ==
    /\ LockAvailable
    /\ RaceStep(th, "k73", "k74")
    /\ ni_lock' = th
    /\ UNCHANGED <<ni_started, ni_task, ni_created, ni_open, ni_line, ni_t,
                   ni_level, ni_stopped>>

\* lines 74 / 83: t = self._task
NI_k74(th) ==
    /\ RaceStep(th, "k74", "k75")
    /\ ni_t' = [ni_t EXCEPT ![th] = ni_task]
    /\ UNCHANGED <<ni_started, ni_task, ni_lock, ni_created, ni_open, ni_line,
                   ni_level, ni_stopped>>

\* lines 75-76 / 84-85: with no Task the method returns and the lock is
\* released
NI_k75(th) ==
    /\ RaceStep(th, "k75", IF ni_t[th] = NoTask THEN "idle" ELSE "k77")
    /\ ni_lock' = IF ni_t[th] = NoTask THEN Unlocked ELSE ni_lock
    /\ ni_level' = [ni_level EXCEPT ![th] = IF ni_t[th] = NoTask THEN None
                                           ELSE @]
    /\ UNCHANGED <<ni_started, ni_task, ni_created, ni_open, ni_line, ni_t,
                   ni_stopped>>

\* lines 77 / 86: t.write(level); the write takes effect or raises; the
\* lock is released and the method returns (or the exception leaves it)
NI_k77(th, ok) ==
    /\ RaceStep(th, "k77", "idle")
    /\ ni_line' = IF ok /\ ni_t[th] \in ni_open THEN ni_level[th] ELSE ni_line
    /\ ni_lock' = Unlocked
    /\ ni_t' = [ni_t EXCEPT ![th] = NoTask]
    /\ ni_level' = [ni_level EXCEPT ![th] = None]
    /\ UNCHANGED <<ni_started, ni_task, ni_created, ni_open, ni_stopped>>

\* start() is called; line 31
NI_start ==
    /\ ni_created < MaxHandles
    /\ RaceStep(Ctl, "idle", IF ni_started THEN "idle" ELSE "s33")
    /\ ni_stopped' = FALSE
    /\ UNCHANGED <<ni_started, ni_task, ni_lock, ni_created, ni_open, ni_line,
                   ni_t, ni_level>>

\* line 33: self._task = nidaqmx.Task()
NI_s33 ==
    /\ RaceStep(Ctl, "s33", "s34")
    /\ ni_created' = ni_created + 1
    /\ ni_task' = ni_created + 1
    /\ ni_open' = ni_open \cup {ni_created + 1}
    /\ UNCHANGED <<ni_started, ni_lock, ni_line, ni_t, ni_level, ni_stopped>>

\* lines 34-37: add_do_chan returns, or raises and start is left
NI_s34(ok) ==
    /\ RaceStep(Ctl, "s34", IF ok THEN "s38" ELSE "idle")
    /\ UNCHANGED <<ni_started, ni_task, ni_lock, ni_created, ni_open, ni_line,
                   ni_t, ni_level, ni_stopped>>

\* line 38
NI_s38 ==
    /\ RaceStep(Ctl, "s38", "s40")
    /\ ni_started' = TRUE
    /\ UNCHANGED <<ni_task, ni_lock, ni_created, ni_open, ni_line, ni_t,
                   ni_level, ni_stopped>>

\* line 40: start calls set_low() or set_high() and returns when it does
NI_s40 ==
    /\ RaceStep(Ctl, "s40", "g71")
    /\ ni_level' = [ni_level EXCEPT ![Ctl] = IdleLevel]
    /\ UNCHANGED <<ni_started, ni_task, ni_lock, ni_created, ni_open, ni_line,
                   ni_t, ni_stopped>>

\* stop() is called; lines 43-44
NI_stop ==
    /\ RaceStep(Ctl, "idle", IF ni_started THEN "p47" ELSE "idle")
    /\ UNCHANGED <<ni_started, ni_task, ni_lock, ni_created, ni_open, ni_line,
                   ni_t, ni_level, ni_stopped>>

\* line 47: t = self._task
NI_p47 ==
    /\ RaceStep(Ctl, "p47", "p48")
    /\ ni_t' = [ni_t EXCEPT ![Ctl] = ni_task]
    /\ UNCHANGED <<ni_started, ni_task, ni_lock, ni_created, ni_open, ni_line,
                   ni_level, ni_stopped>>

\* line 48
NI_p48 ==
    /\ RaceStep(Ctl, "p48", "p49")
    /\ ni_started' = FALSE
    /\ UNCHANGED <<ni_task, ni_lock, ni_created, ni_open, ni_line, ni_t,
                   ni_level, ni_stopped>>

\* lines 49-52: self._task = None, and the return when t is None
NI_p49 ==
    /\ RaceStep(Ctl, "p49", IF ni_t[Ctl] = NoTask THEN "idle" ELSE "p55")
    /\ ni_task' = NoTask
    /\ UNCHANGED <<ni_started, ni_lock, ni_created, ni_open, ni_line, ni_t,
                   ni_level, ni_stopped>>

\* line 55: the lock is acquired
NI_p55 ==
    /\ LockAvailable
    /\ RaceStep(Ctl, "p55", "p59")
    /\ ni_lock' = Ctl
    /\ UNCHANGED <<ni_started, ni_task, ni_created, ni_open, ni_line, ni_t,
                   ni_level, ni_stopped>>

\* lines 57-61: the idle write, best effort
NI_p59(ok) ==
    /\ RaceStep(Ctl, "p59", "p63")
    /\ ni_line' = IF ok /\ ni_t[Ctl] \in ni_open THEN IdleLevel ELSE ni_line
    /\ UNCHANGED <<ni_started, ni_task, ni_lock, ni_created, ni_open, ni_t,
                   ni_level, ni_stopped>>

\* lines 62-65: t.close(), and the lock is released
NI_p63 ==
    /\ RaceStep(Ctl, "p63", "p68")
    /\ ni_open' = ni_open \ {ni_t[Ctl]}
    /\ ni_lock' = Unlocked
    /\ UNCHANGED <<ni_started, ni_task, ni_created, ni_line, ni_t, ni_level,
                   ni_stopped>>

\* stop() returns
NI_p68 ==
    /\ RaceStep(Ctl, "p68", "idle")
    /\ ni_t' = [ni_t EXCEPT ![Ctl] = NoTask]
    /\ ni_stopped' = TRUE
    /\ UNCHANGED <<ni_started, ni_task, ni_lock, ni_created, ni_open, ni_line,
                   ni_level>>

NextRace ==
    \/ \E th \in Setters : NI_set_high(th)
    \/ \E th \in Setters : NI_set_low(th)
    \/ \E th \in RaceThreads : NI_g71(th)
    \/ \E th \in RaceThreads : NI_g71t(th)
    \/ \E th \in RaceThreads : NI_k73(th)
    \/ \E th \in RaceThreads : NI_k74(th)
    \/ \E th \in RaceThreads : NI_k75(th)
    \/ \E th \in RaceThreads, ok \in BOOLEAN : NI_k77(th, ok)
    \/ NI_start
    \/ NI_s33
    \/ \E ok \in BOOLEAN : NI_s34(ok)
    \/ NI_s38
    \/ NI_s40
    \/ NI_stop
    \/ NI_p47
    \/ NI_p48
    \/ NI_p49
    \/ NI_p55
    \/ \E ok \in BOOLEAN : NI_p59(ok)
    \/ NI_p63
    \/ NI_p68

(***************************************************************************)
(* PulseManager public API (pulse_manager.py), called from one thread.     *)
(***************************************************************************)
ActiveLevel == IF cfg_idle_low THEN "HIGH" ELSE "LOW"

\* request_pulse: w = self.default_width_s if width_s is None else float(width_s)
EffectiveWidth(arg) == IF arg.none THEN DefaultWidth ELSE arg.v

\* mutant of WidthRejected: a zero width is let through
WidthRejected_NegativeOnly(w) == w < 0

\* request_pulse: the guard `if w <= 0: return`
WidthRejected(w) == w <= 0

\* _run: the guard `if self._stop_event.is_set() or req.label == "__shutdown__"`
IsShutdown(req) == pm_stop_event \/ req.label = ShutdownLabel

PM_start(outcome) ==
    /\ pm_pc = "idle"
    /\ IF pm_started
       THEN /\ pm_last' = [op |-> "start", res |-> "already"]
            /\ UNCHANGED <<daqVars, pm_started, pm_stop_event, pm_thread,
                           wk_pc, nthreads>>
       ELSE /\ nthreads < MaxThreads
            /\ NIDaqDO_start(outcome)
            /\ IF NIDaqDO_start_raises(outcome)
               THEN /\ pm_last' = [op |-> "start", res |-> "error"]
                    /\ UNCHANGED <<pm_started, pm_stop_event, pm_thread,
                                   wk_pc, nthreads>>
               ELSE /\ pm_stop_event' = FALSE
                    /\ nthreads' = nthreads + 1
                    /\ pm_thread' = nthreads + 1
                    /\ wk_pc' = [wk_pc EXCEPT ![nthreads + 1] = "loop"]
                    /\ pm_started' = TRUE
                    /\ pm_last' = [op |-> "start", res |-> "ok"]
    /\ UNCHANGED <<pm_queue, pm_pulse_active, wk_req, wk_exc, wk_idle, pm_pc,
                   calls, served, restored, cleared, discarded>>
    /\ UNCHANGED <<lineVars, syncVars, camVars>>

\* mutant of NotStarted: the start check is missing
NotStarted_Unchecked == FALSE

\* request_pulse: the guard `if not self._started: raise RuntimeError`
NotStarted == ~pm_started

PM_request_pulse(arg) ==
    LET w == EffectiveWidth(arg)
        id == Len(calls) + 1
        res == IF NotStarted THEN "not_started"
               ELSE IF WidthRejected(w) THEN "ignored"
               ELSE "queued"
    IN  /\ pm_pc = "idle"
        /\ Len(calls) < MaxCalls
        /\ calls' = Append(calls, res)
        /\ pm_last' = [op |-> "request_pulse", res |-> res]
        /\ pm_queue' = IF res = "queued"
                       THEN Append(pm_queue,
                                   [id |-> id, width_s |-> w,
                                    label |-> arg.label])
                       ELSE pm_queue
        /\ UNCHANGED <<daqVars, pm_started, pm_stop_event, pm_thread,
                       pm_pulse_active, wk_pc, wk_req, wk_exc, wk_idle, pm_pc,
                       nthreads, served, restored, cleared, discarded>>
        /\ UNCHANGED <<lineVars, syncVars, camVars>>

\* stop(), lines 78-81: the guard and self._stop_event.set()
PM_stop_begin ==
    /\ pm_pc = "idle"
    /\ IF ~pm_started
       THEN /\ pm_last' = [op |-> "stop", res |-> "not_started"]
            /\ UNCHANGED <<pm_stop_event, pm_pc>>
       ELSE /\ pm_stop_event' = TRUE
            /\ pm_pc' = "stop_put"
            /\ UNCHANGED pm_last
    /\ UNCHANGED <<daqVars, pm_started, pm_queue, pm_thread, pm_pulse_active,
                   wk_pc, wk_req, wk_exc, wk_idle, histVars>>
    /\ UNCHANGED <<lineVars, syncVars, camVars>>

\* stop(), lines 84-87: put_nowait of the shutdown sentinel
PM_stop_put ==
    /\ pm_pc = "stop_put"
    /\ pm_queue' = Append(pm_queue, Sentinel)
    /\ pm_pc' = "stop_join"
    /\ UNCHANGED <<daqVars, pm_started, pm_stop_event, pm_thread,
                   pm_pulse_active, wk_pc, wk_req, wk_exc, wk_idle, pm_last, histVars>>
    /\ UNCHANGED <<lineVars, syncVars, camVars>>

\* join(timeout=1.0) returns when the worker has exited, or when the timeout
\* passes while the worker sleeps in a pulse longer than the timeout
JoinReturns(w) ==
    \/ wk_pc[w] = "dead"
    \/ wk_pc[w] = "sleep" /\ wk_req[w].width_s > JoinTimeout

\* stop(), lines 89-94
PM_stop_join ==
    /\ pm_pc = "stop_join"
    /\ pm_thread # NoThread => JoinReturns(pm_thread)
    /\ pm_thread' = NoThread
    /\ pm_pc' = "stop_daq"
    /\ UNCHANGED <<daqVars, pm_started, pm_stop_event, pm_queue,
                   pm_pulse_active, wk_pc, wk_req, wk_exc, wk_idle, pm_last, histVars>>
    /\ UNCHANGED <<lineVars, syncVars, camVars>>

\* stop(), lines 97-100: self.daq.stop()
PM_stop_daq ==
    /\ pm_pc = "stop_daq"
    /\ \E ok \in BOOLEAN : NIDaqDO_stop(ok)
    /\ pm_pc' = "stop_clear"
    /\ UNCHANGED <<pm_started, pm_stop_event, pm_queue, pm_thread,
                   pm_pulse_active, wk_pc, wk_req, wk_exc, wk_idle, pm_last, histVars>>
    /\ UNCHANGED <<lineVars, syncVars, camVars>>

\* stop(), lines 102-103
PM_stop_clear ==
    /\ pm_pc = "stop_clear"
    /\ pm_pulse_active' = FALSE
    /\ pm_pc' = "stop_end"
    /\ UNCHANGED <<daqVars, pm_started, pm_stop_event, pm_queue, pm_thread,
                   wk_pc, wk_req, wk_exc, wk_idle, pm_last, histVars>>
    /\ UNCHANGED <<lineVars, syncVars, camVars>>

\* stop(), line 105
PM_stop_end ==
    /\ pm_pc = "stop_end"
    /\ pm_started' = FALSE
    /\ pm_pc' = "idle"
    /\ pm_last' = [op |-> "stop", res |-> "ok"]
    /\ UNCHANGED <<daqVars, pm_stop_event, pm_queue, pm_thread,
                   pm_pulse_active, wk_pc, wk_req, wk_exc, wk_idle, histVars>>
    /\ UNCHANGED <<lineVars, syncVars, camVars>>

(***************************************************************************)
(* PulseManager._run, one step per statement, for worker thread w.         *)
(***************************************************************************)
\* the active-level write of _run (lines 160-164) and its idle-level write
\* (lines 173-177)
PM_write_active(ok) ==
    IF cfg_idle_low THEN NIDaqDO_set_high(ok) ELSE NIDaqDO_set_low(ok)

PM_write_idle(ok) ==
    IF cfg_idle_low THEN NIDaqDO_set_low(ok) ELSE NIDaqDO_set_high(ok)

\* mutant of AfterActiveWrite: the exception of the active-level write leaves
\* the loop body without running the finally clause
AfterActiveWrite_NoFinally(raised) == IF raised THEN "loop" ELSE "sleep"

\* where _run goes after the active-level write: on an exception the
\* `continue` of line 167 leaves the try block through its finally clause
AfterActiveWrite(raised) == IF raised THEN "low" ELSE "sleep"

\* line 144: while not self._stop_event.is_set()
W_loop(w) ==
    /\ wk_pc[w] = "loop"
    /\ wk_pc' = [wk_pc EXCEPT ![w] = IF pm_stop_event THEN "dead" ELSE "get"]
    /\ UNCHANGED <<daqVars, pm_started, pm_stop_event, pm_queue, pm_thread,
                   pm_pulse_active, wk_req, wk_exc, wk_idle, pm_pc, pm_last,
                   histVars>>
    /\ UNCHANGED <<lineVars, syncVars, camVars>>

\* lines 145-148: req = self._queue.get(timeout=0.1), queue.Empty -> continue
W_get(w) ==
    /\ wk_pc[w] = "get"
    /\ IF pm_queue = <<>>
       THEN /\ wk_pc' = [wk_pc EXCEPT ![w] = "loop"]
            /\ UNCHANGED <<pm_queue, wk_req>>
       ELSE /\ wk_req' = [wk_req EXCEPT ![w] = Head(pm_queue)]
            /\ pm_queue' = Tail(pm_queue)
            /\ wk_pc' = [wk_pc EXCEPT ![w] = "check"]
    /\ UNCHANGED <<daqVars, pm_started, pm_stop_event, pm_thread,
                   pm_pulse_active, wk_exc, wk_idle, pm_pc, pm_last,
                   histVars>>
    /\ UNCHANGED <<lineVars, syncVars, camVars>>

\* lines 151-152: the shutdown test, break
W_check(w) ==
    /\ wk_pc[w] = "check"
    /\ IF IsShutdown(wk_req[w])
       THEN /\ wk_pc' = [wk_pc EXCEPT ![w] = "dead"]
            /\ discarded' = IF wk_req[w].id # 0 /\ ~pm_stop_event
                            THEN discarded \cup {wk_req[w].id}
                            ELSE discarded
            /\ wk_req' = [wk_req EXCEPT ![w] = NoReq]
       ELSE /\ wk_pc' = [wk_pc EXCEPT ![w] = "mark"]
            /\ UNCHANGED <<discarded, wk_req>>
    /\ UNCHANGED <<daqVars, pm_started, pm_stop_event, pm_queue, pm_thread,
                   pm_pulse_active, wk_exc, wk_idle, pm_pc, pm_last,
                   calls, nthreads, served, restored, cleared>>
    /\ UNCHANGED <<lineVars, syncVars, camVars>>

\* lines 156-157: self._pulse_active = True
W_mark(w) ==
    /\ wk_pc[w] = "mark"
    /\ pm_pulse_active' = TRUE
    /\ wk_pc' = [wk_pc EXCEPT ![w] = "high"]
    /\ UNCHANGED <<daqVars, pm_started, pm_stop_event, pm_queue, pm_thread,
                   wk_req, wk_exc, wk_idle, pm_pc, pm_last, histVars>>
    /\ UNCHANGED <<lineVars, syncVars, camVars>>

\* lines 160-167: the active-level write
W_high(w) ==
    /\ wk_pc[w] = "high"
    /\ \E ok \in BOOLEAN :
          /\ PM_write_active(ok)
          /\ wk_pc' = [wk_pc EXCEPT
                          ![w] = AfterActiveWrite(NIDaqDO_set_raises(ok))]
          /\ wk_exc' = [wk_exc EXCEPT ![w] = NIDaqDO_set_raises(ok)]
    /\ served' = Append(served, wk_req[w].id)
    /\ UNCHANGED <<pm_started, pm_stop_event, pm_queue, pm_thread,
                   pm_pulse_active, wk_req, wk_idle, pm_pc, pm_last,
                   calls, nthreads, restored, cleared, discarded>>
    /\ UNCHANGED <<lineVars, syncVars, camVars>>

\* line 169: time.sleep(req.width_s)
W_sleep(w) ==
    /\ wk_pc[w] = "sleep"
    /\ wk_pc' = [wk_pc EXCEPT ![w] = "low"]
    /\ UNCHANGED <<daqVars, pm_started, pm_stop_event, pm_queue, pm_thread,
                   pm_pulse_active, wk_req, wk_exc, wk_idle, pm_pc, pm_last,
                   histVars>>
    /\ UNCHANGED <<lineVars, syncVars, camVars>>

\* lines 173-179: the idle-level write of the finally clause; an exception
\* is printed and swallowed
W_low(w) ==
    /\ wk_pc[w] = "low"
    /\ \E ok \in BOOLEAN :
          /\ PM_write_idle(ok)
          /\ wk_idle' = [wk_idle EXCEPT
                            ![w] = IF ~(daq_started /\ daq_task # None)
                                   THEN "skipped"
                                   ELSE IF ok THEN "written" ELSE "raised"]
    /\ wk_pc' = [wk_pc EXCEPT ![w] = "clear"]
    /\ restored' = restored \cup {wk_req[w].id}
    /\ UNCHANGED <<pm_started, pm_stop_event, pm_queue, pm_thread,
                   pm_pulse_active, wk_req, wk_exc, pm_pc, pm_last,
                   calls, nthreads, served, cleared, discarded>>
    /\ UNCHANGED <<lineVars, syncVars, camVars>>

\* lines 181-182: self._pulse_active = False, then back to the loop test
W_clear(w) ==
    /\ wk_pc[w] = "clear"
    /\ pm_pulse_active' = FALSE
    /\ wk_pc' = [wk_pc EXCEPT ![w] = "loop"]
    /\ cleared' = cleared \cup {wk_req[w].id}
    /\ wk_req' = [wk_req EXCEPT ![w] = NoReq]
    /\ wk_exc' = [wk_exc EXCEPT ![w] = FALSE]
    /\ wk_idle' = [wk_idle EXCEPT ![w] = None]
    /\ UNCHANGED <<daqVars, pm_started, pm_stop_event, pm_queue, pm_thread,
                   pm_pc, pm_last,
                   calls, nthreads, served, restored, discarded>>
    /\ UNCHANGED <<lineVars, syncVars, camVars>>

(***************************************************************************)
(* SpecPulse: the PulseManager with its line, from construction.           *)
(***************************************************************************)
\* every DOLine of the program is built with idle_low=True (main.py:170,
\* pulse_manager.py:40, the default of ni_control.py:16)
ConstructedPulse ==
    /\ cfg_idle_low = TRUE
    /\ daq_started = FALSE
    /\ daq_task = None
    /\ line = "LOW"
    /\ pm_started = FALSE
    /\ pm_stop_event = FALSE
    /\ pm_queue = <<>>
    /\ pm_thread = NoThread
    /\ pm_pulse_active = FALSE
    /\ wk_pc = [w \in Workers |-> "unborn"]
    /\ wk_req = [w \in Workers |-> NoReq]
    /\ wk_exc = [w \in Workers |-> FALSE]
    /\ wk_idle = [w \in Workers |-> None]
    /\ pm_pc = "idle"
    /\ pm_last = [op |-> None, res |-> None]
    /\ calls = <<>>
    /\ nthreads = 0
    /\ served = <<>>
    /\ restored = {}
    /\ cleared = {}
    /\ discarded = {}

\* the stub line after __init__ (ni_control.py:94-96); no call made yet
ConstructedLine ==
    /\ stub_started = FALSE
    /\ do_calls = 0
    /\ do_last = NoCall
    /\ hw_error = FALSE

\* the hardware-backed line after __init__ (ni_control.py:24-28); every
\* thread is outside its methods
ConstructedRace ==
    /\ ni_started = FALSE
    /\ ni_task = NoTask
    /\ ni_lock = Unlocked
    /\ ni_created = 0
    /\ ni_open = {}
    /\ ni_line = "LOW"
    /\ ni_pc = [th \in RaceThreads |-> "idle"]
    /\ ni_t = [th \in RaceThreads |-> NoTask]
    /\ ni_level = [th \in RaceThreads |-> None]
    /\ ni_stopped = FALSE

\* MainWindow after __init__ (main.py:113-120); no handler is running
ConstructedGui ==
    /\ mw_state = "IDLE"
    /\ mw_preview_running = FALSE
    /\ mw_handler = None

\* the sync window after CameraController.__init__ (lines 98-100); no thread
\* is inside notify_sync_pulse_window
ConstructedSync ==
    /\ now = 1
    /\ sync_window_end = 0
    /\ sync_label = None
    /\ nt_pc = [n \in Notifiers |-> "idle"]
    /\ nt_now = [n \in Notifiers |-> 0]
    /\ nt_width = [n \in Notifiers |-> 0]
    /\ nt_label = [n \in Notifiers |-> None]
    /\ last_end = 0

\* CameraController.__init__ (lines 71-95); no acquisition thread exists and
\* the caller is outside every method
ConstructedCam ==
    /\ system = FALSE
    /\ cam_list = FALSE
    /\ cam = FALSE
    /\ acquiring = FALSE
    /\ streaming = FALSE
    /\ acq_thread = FALSE
    /\ cam_stop_event = FALSE
    /\ recording_active = FALSE
    /\ record_start_requested = FALSE
    /\ record_stop_requested = FALSE
    /\ avi_recorder = None
    /\ recording_fps = 30
    /\ record_filename = None
    /\ metadata_records = <<>>
    /\ frame_counter = 0
    /\ lp_pc = "none"
    /\ gui_pc = "idle"
    /\ g_filename = None
    /\ g_fps = 30
    /\ sr_result = NoResult
    /\ start_result = NoResult
    /\ in_start = FALSE
    /\ api_returned = FALSE
    /\ lp_now = 0
    /\ lp_sync = FALSE
    /\ lp_label = None
    /\ lp_end = 0
    /\ lp_appended = FALSE
    /\ grab_no = 0
    /\ flush = NoFlush
    /\ last_empty = FALSE
    /\ open_result = None

\* the state after construction of the line, the PulseManager and the
\* CameraController
Init ==
    /\ ConstructedPulse /\ ConstructedLine /\ ConstructedRace
    /\ ConstructedSync /\ ConstructedCam /\ ConstructedGui

NextPulse ==
    \/ \E outcome \in {"ok", "chan_error", "write_error"} : PM_start(outcome)
    \/ \E arg \in RequestArgs : PM_request_pulse(arg)
    \/ PM_stop_begin
    \/ PM_stop_put
    \/ PM_stop_join
    \/ PM_stop_daq
    \/ PM_stop_clear
    \/ PM_stop_end
    \/ \E w \in Workers : W_loop(w)
    \/ \E w \in Workers : W_get(w)
    \/ \E w \in Workers : W_check(w)
    \/ \E w \in Workers : W_mark(w)
    \/ \E w \in Workers : W_high(w)
    \/ \E w \in Workers : W_sleep(w)
    \/ \E w \in Workers : W_low(w)
    \/ \E w \in Workers : W_clear(w)

SpecPulse == Init /\ [][NextPulse]_vars

\* a client calling start, stop, set_high and set_low on a line
SpecLine == Init /\ [][NextLine]_vars

SpecRace == Init /\ [][NextRace]_vars

(***************************************************************************)
(* CameraController.notify_sync_pulse_window (camera_control.py:463-475),  *)
(* called by thread n.  The clock ticks between statements.                *)
(***************************************************************************)
Max(a, b) == IF a >= b THEN a ELSE b

\* mutant of NewWindowEnd: the new end overwrites the window
NewWindowEnd_Overwrite(cur, end_time) == end_time

\* line 474: self._sync_window_end = max(self._sync_window_end, end_time)
NewWindowEnd(cur, end_time) == Max(cur, end_time)

\* line 469 (now = time.time()) with the arguments of the call
Notify_begin(n, width_s, label) ==
    /\ nt_pc[n] = "idle"
    /\ nt_now' = [nt_now EXCEPT ![n] = now]
    /\ nt_width' = [nt_width EXCEPT ![n] = width_s]
    /\ nt_label' = [nt_label EXCEPT ![n] = label]
    /\ nt_pc' = [nt_pc EXCEPT ![n] = "apply"]
    /\ UNCHANGED <<now, sync_window_end, sync_label, last_end>>
    /\ UNCHANGED <<pulseVars, lineVars, camVars>>

\* line 470: end_time = now + float(width_s)
EndTime(n) == nt_now[n] + nt_width[n]

\* lines 470-475: end_time, then the update under self._sync_lock, and the
\* return, after which the locals are gone
Notify_apply(n) ==
    /\ nt_pc[n] = "apply"
    /\ sync_window_end' = NewWindowEnd(sync_window_end, EndTime(n))
    /\ sync_label' = nt_label[n]
    /\ last_end' = EndTime(n)
    /\ nt_pc' = [nt_pc EXCEPT ![n] = "idle"]
    /\ nt_now' = [nt_now EXCEPT ![n] = 0]
    /\ nt_width' = [nt_width EXCEPT ![n] = 0]
    /\ nt_label' = [nt_label EXCEPT ![n] = None]
    /\ UNCHANGED now
    /\ UNCHANGED <<pulseVars, lineVars, camVars>>

\* notify_sync_pulse_window(width_s, label) as a whole (lines 469-475), with
\* no other call of it in progress
Notify(width_s, label) ==
    /\ \A n \in Notifiers : nt_pc[n] = "idle"
    /\ sync_window_end' = NewWindowEnd(sync_window_end, now + width_s)
    /\ sync_label' = label
    /\ last_end' = now + width_s
    /\ UNCHANGED <<now, nt_pc, nt_now, nt_width, nt_label>>
    /\ UNCHANGED <<pulseVars, lineVars, camVars>>

\* time.time() advances
Tick ==
    /\ now < MaxTime
    /\ now' = now + 1
    /\ UNCHANGED <<sync_window_end, sync_label, nt_pc, nt_now, nt_width,
                   nt_label, last_end>>
    /\ UNCHANGED <<pulseVars, lineVars, camVars>>

NextSync ==
    \/ \E n \in Notifiers, width_s \in SyncWidths, label \in SyncLabels :
          Notify_begin(n, width_s, label)
    \/ \E n \in Notifiers : Notify_apply(n)
    \/ Tick

SpecSync == Init /\ [][NextSync]_vars

(***************************************************************************)
(* CameraController (camera_control.py).  The public methods are called    *)
(* from one thread, the GUI thread (gui_pc); _acquisition_loop runs in the *)
(* acquisition thread (lp_pc).  A position "lNNN", "srNNN", "spNNN" or     *)
(* "stNNN" is the source line the thread executes next.                    *)
(***************************************************************************)
LoopAlive == lp_pc \notin {"none", "exit"}

\* the values returned at lines 111, 120, 144 and 148
StartAlreadyResult == [ok |-> TRUE, msg |-> "already"]
StartNoCamerasResult == [ok |-> FALSE, msg |-> "no_cameras"]
StartedResult == [ok |-> TRUE, msg |-> "started"]
StartErrorResult == [ok |-> FALSE, msg |-> "error"]

\* mutant of CleanupSystem: the instance acquired at line 114 is kept
CleanupSystem_Kept == system' = TRUE

\* _cleanup_system (lines 206-212), called at line 119 after line 114
\* acquired the instance
CleanupSystem == system' = FALSE

\* CameraController.start (lines 105-148).  When acquiring is False the
\* acquisition thread of an earlier preview has been joined by stop(), so
\* the method runs alone up to the start of the new thread.  outcome: "ok",
\* "no_cameras", "error_system" (GetInstance raises) or "error_camera" (a call after
\* self.cam was assigned raises); an error continues in stop().
CAM_start(outcome) ==
    /\ gui_pc = "idle"
    /\ IF acquiring
       THEN /\ start_result' = StartAlreadyResult
            /\ api_returned' = TRUE
            /\ UNCHANGED <<devVars, lp_pc, gui_pc, in_start>>
       ELSE CASE outcome = "ok" ->
                    /\ system' = TRUE
                    /\ cam_list' = TRUE
                    /\ cam' = TRUE
                    /\ streaming' = TRUE
                    /\ acquiring' = TRUE
                    /\ cam_stop_event' = FALSE
                    /\ acq_thread' = TRUE
                    /\ lp_pc' = "l294"
                    /\ start_result' = StartedResult
                    /\ api_returned' = TRUE
                    /\ UNCHANGED <<gui_pc, in_start>>
              [] outcome = "no_cameras" ->
                    /\ CleanupSystem
                    /\ cam_list' = TRUE
                    /\ start_result' = StartNoCamerasResult
                    /\ api_returned' = TRUE
                    /\ UNCHANGED <<cam, streaming, acquiring, cam_stop_event,
                                   acq_thread, lp_pc, gui_pc, in_start>>
              [] outcome = "error_system" ->
                    /\ gui_pc' = "st158"
                    /\ in_start' = TRUE
                    /\ UNCHANGED <<devVars, lp_pc, start_result, api_returned>>
              [] outcome = "error_camera" ->
                    /\ system' = TRUE
                    /\ cam_list' = TRUE
                    /\ cam' = TRUE
                    /\ gui_pc' = "st158"
                    /\ in_start' = TRUE
                    /\ UNCHANGED <<streaming, acquiring, cam_stop_event,
                                   acq_thread, lp_pc, start_result,
                                   api_returned>>
    /\ UNCHANGED <<recVars, g_filename, g_fps, sr_result, lpVars, logVars>>
    /\ UNCHANGED <<pulseVars, lineVars, syncVars>>

\* a step of the GUI thread inside stop() that moves to position next
StopStep(here, next) ==
    /\ gui_pc = here
    /\ gui_pc' = next
    /\ UNCHANGED <<lp_pc, g_filename, g_fps, sr_result, lpVars, logVars>>
    /\ UNCHANGED <<pulseVars, lineVars, syncVars>>

\* CameraController.stop is entered (line 150)
CAM_stop ==
    /\ gui_pc = "idle"
    /\ StopStep("idle", "st158")
    /\ UNCHANGED <<startVars, api_returned>>
    /\ UNCHANGED <<devVars, recVars>>

\* line 158
CAM_stop_st158 ==
    /\ StopStep("st158", IF recording_active \/ record_start_requested
                         THEN "st159" ELSE "st167")
    /\ UNCHANGED <<startVars, api_returned>>
    /\ UNCHANGED <<devVars, recVars>>

\* line 159
CAM_stop_st159 ==
    /\ StopStep("st159", "st161")
    /\ UNCHANGED <<startVars, api_returned>>
    /\ record_stop_requested' = TRUE
    /\ UNCHANGED <<devVars, recording_active, record_start_requested,
                   avi_recorder, recording_fps, record_filename,
                   metadata_records, frame_counter>>

\* lines 161-164: the wait ends when recording_active is False, or after 100
\* sleeps of 10 ms; the acquisition thread does not finish a stop within
\* that second only if it is not running or is blocked in GetNextImage
CAM_stop_st161 ==
    /\ \/ ~recording_active
       \/ ~LoopAlive
       \/ lp_pc = "l377"
    /\ StopStep("st161", "st167")
    /\ UNCHANGED <<startVars, api_returned>>
    /\ UNCHANGED <<devVars, recVars>>

\* line 167
CAM_stop_st167 ==
    /\ StopStep("st167", "st170")
    /\ UNCHANGED <<startVars, api_returned>>
    /\ cam_stop_event' = TRUE
    /\ UNCHANGED <<system, cam_list, cam, acquiring, streaming, acq_thread,
                   recVars>>

\* lines 170-174
CAM_stop_st170 ==
    /\ StopStep("st170", "st177")
    /\ UNCHANGED <<startVars, api_returned>>
    /\ streaming' = IF cam /\ acquiring THEN FALSE ELSE streaming
    /\ UNCHANGED <<system, cam_list, cam, acquiring, acq_thread,
                   cam_stop_event, recVars>>

\* lines 177-182: join returns when the acquisition thread has exited; the
\* thread leaves GetNextImage once acquisition has ended
CAM_stop_st177 ==
    /\ acq_thread => ~LoopAlive
    /\ StopStep("st177", "st185")
    /\ UNCHANGED <<startVars, api_returned>>
    /\ acq_thread' = FALSE
    /\ UNCHANGED <<system, cam_list, cam, acquiring, streaming,
                   cam_stop_event, recVars>>

\* lines 185-204, and the return of stop() (to start() if it was called
\* from there)
CAM_stop_st185 ==
    /\ StopStep("st185", "idle")
    /\ start_result' = IF in_start THEN StartErrorResult ELSE start_result
    /\ in_start' = FALSE
    /\ api_returned' = TRUE
    /\ cam' = FALSE
    /\ cam_list' = FALSE
    /\ system' = FALSE
    /\ acquiring' = FALSE
    /\ streaming' = FALSE
    /\ UNCHANGED <<acq_thread, cam_stop_event, recVars>>

\* line 264: the call is refused because no acquisition is running
SR_NotAcquiring == ~acquiring \/ ~cam

\* mutant of SR_Busy: only a pending start request counts as busy
SR_Busy_PendingOnly == record_start_requested

\* line 267: a session is active or a start is pending
SR_Busy == recording_active \/ record_start_requested

\* the values returned at lines 265, 268 and 278
SR_NotAcquiringResult == [ok |-> FALSE, msg |-> "not_acquiring"]
SR_BusyResult == [ok |-> TRUE, msg |-> "already"]
SR_RequestedResult == [ok |-> TRUE, msg |-> "requested"]

\* start_recording(filename, fps), lines 264-268: both checks.  acquiring
\* and cam are written by the GUI thread only, so the two conditions are
\* evaluated in one step.
CAM_start_recording(filename, fps) ==
    /\ gui_pc = "idle"
    /\ IF SR_NotAcquiring
       THEN /\ sr_result' = SR_NotAcquiringResult
            /\ api_returned' = TRUE
            /\ UNCHANGED <<gui_pc, g_filename, g_fps>>
       ELSE IF SR_Busy
       THEN /\ sr_result' = SR_BusyResult
            /\ api_returned' = TRUE
            /\ UNCHANGED <<gui_pc, g_filename, g_fps>>
       ELSE /\ gui_pc' = "sr270"
            /\ g_filename' = filename
            /\ g_fps' = fps
            /\ UNCHANGED <<sr_result, api_returned>>
    /\ UNCHANGED <<devVars, recVars, lp_pc, lpVars, logVars, startVars>>
    /\ UNCHANGED <<pulseVars, lineVars, syncVars>>

\* a step of the GUI thread inside start_recording
SRStep(here, next) ==
    /\ gui_pc = here
    /\ gui_pc' = next
    /\ UNCHANGED <<devVars, lp_pc, g_filename, g_fps, lpVars, grab_no, flush,
                   last_empty, startVars>>
    /\ UNCHANGED <<pulseVars, lineVars, syncVars>>

\* line 270
CAM_sr270 ==
    /\ SRStep("sr270", "sr271")
    /\ record_filename' = g_filename
    /\ UNCHANGED <<recording_active, record_start_requested,
                   record_stop_requested, avi_recorder, recording_fps,
                   metadata_records, frame_counter, sr_result,
                   open_result, api_returned>>

\* line 271
CAM_sr271 ==
    /\ SRStep("sr271", "sr272")
    /\ recording_fps' = g_fps
    /\ UNCHANGED <<recording_active, record_start_requested,
                   record_stop_requested, avi_recorder, record_filename,
                   metadata_records, frame_counter, sr_result,
                   open_result, api_returned>>

\* line 272
CAM_sr272 ==
    /\ SRStep("sr272", "sr273")
    /\ metadata_records' = <<>>
    /\ UNCHANGED <<recording_active, record_start_requested,
                   record_stop_requested, avi_recorder, recording_fps,
                   record_filename, frame_counter, sr_result,
                   open_result, api_returned>>

\* line 273
CAM_sr273 ==
    /\ SRStep("sr273", "sr274")
    /\ record_start_requested' = TRUE
    /\ UNCHANGED <<recording_active, record_stop_requested, avi_recorder,
                   recording_fps, record_filename, metadata_records,
                   frame_counter, sr_result, api_returned>>
    /\ open_result' = None

\* line 274
CAM_sr274 ==
    /\ SRStep("sr274", "sr276")
    /\ record_stop_requested' = FALSE
    /\ UNCHANGED <<recording_active, record_start_requested, avi_recorder,
                   recording_fps, record_filename, metadata_records,
                   frame_counter, sr_result,
                   open_result, api_returned>>

\* lines 276-278: the counter reset and the return
CAM_sr276 ==
    /\ SRStep("sr276", "idle")
    /\ frame_counter' = 0
    /\ sr_result' = SR_RequestedResult
    /\ api_returned' = TRUE
    /\ UNCHANGED <<recording_active, record_start_requested,
                   record_stop_requested, avi_recorder, recording_fps,
                   record_filename, metadata_records, open_result>>

\* mutant of SP_NoSession: the check is missing
SP_NoSession_Unchecked == FALSE

\* line 285: nothing to stop
SP_NoSession == ~recording_active /\ ~record_start_requested

\* stop_recording, lines 285-286: the check
CAM_stop_recording ==
    /\ gui_pc = "idle"
    /\ gui_pc' = IF SP_NoSession THEN "idle" ELSE "sp287"
    /\ api_returned' = (SP_NoSession \/ api_returned)
    /\ UNCHANGED <<devVars, recVars, lp_pc, g_filename, g_fps, sr_result,
                   lpVars, logVars, startVars>>
    /\ UNCHANGED <<pulseVars, lineVars, syncVars>>

\* line 287
CAM_sp287 ==
    /\ gui_pc = "sp287"
    /\ gui_pc' = "idle"
    /\ record_stop_requested' = TRUE
    /\ api_returned' = TRUE
    /\ UNCHANGED <<devVars, recording_active, record_start_requested,
                   avi_recorder, recording_fps, record_filename,
                   metadata_records, frame_counter, lp_pc, g_filename, g_fps,
                   sr_result, lpVars, logVars, startVars>>
    /\ UNCHANGED <<pulseVars, lineVars, syncVars>>

\* a step of the acquisition thread from position here to position next
LoopStep(here, next) ==
    /\ lp_pc = here
    /\ lp_pc' = next
    /\ UNCHANGED <<devVars, gui_pc, g_filename, g_fps, sr_result, startVars,
                   api_returned>>
    /\ UNCHANGED <<pulseVars, lineVars, syncVars>>

\* mutant of LoopCondition: the stop signal is not looked at
LoopCondition_IgnoreEvent == acquiring /\ cam

\* the condition of lines 294-298
LoopCondition == ~cam_stop_event /\ acquiring /\ cam

\* lines 294-298: the loop condition; the thread ends when it is false
L_while ==
    /\ LoopStep("l294", IF LoopCondition THEN "l302" ELSE "exit")
    /\ UNCHANGED <<recVars, lpVars, logVars>>

\* mutant of OpenAllowed: the loop opens an encoder on every iteration
OpenAllowed_Always == TRUE

\* the condition of line 302
OpenAllowed == record_start_requested /\ ~recording_active

\* line 302
L_check_start ==
    /\ LoopStep("l302", IF OpenAllowed THEN "l304" ELSE "l320")
    /\ UNCHANGED <<recVars, lpVars, logVars>>

\* lines 304-307: the SpinVideo object and its options
L_new_recorder ==
    /\ LoopStep("l304", "l308")
    /\ avi_recorder' = "created"
    /\ UNCHANGED <<recording_active, record_start_requested,
                   record_stop_requested, recording_fps, record_filename,
                   metadata_records, frame_counter, lpVars, logVars>>

\* line 308: Open succeeds or raises; it raises when record_filename is None
L_open(ok) ==
    /\ ok => record_filename # None
    /\ LoopStep("l308", IF ok THEN "l309" ELSE "l312")
    /\ avi_recorder' = IF ok THEN "open" ELSE avi_recorder
    /\ open_result' = IF ok THEN "ok" ELSE "failed"
    /\ UNCHANGED <<recording_active, record_start_requested,
                   record_stop_requested, recording_fps, record_filename,
                   metadata_records, frame_counter, lpVars, grab_no, flush,
                   last_empty>>

\* line 309; the session is open from here on
L_set_active ==
    /\ LoopStep("l309", "l315")
    /\ recording_active' = TRUE
    /\ grab_no' = 0
    /\ UNCHANGED <<record_start_requested, record_stop_requested,
                   avi_recorder, recording_fps, record_filename,
                   metadata_records, frame_counter, lpVars, flush,
                   last_empty, open_result>>

\* mutant of OpenFailedRecorder: the encoder that failed to open is kept
OpenFailedRecorder_Kept == avi_recorder

\* line 312: the value assigned to self.avi_recorder
OpenFailedRecorder == None

\* line 312
L_open_failed ==
    /\ LoopStep("l312", "l313")
    /\ avi_recorder' = OpenFailedRecorder
    /\ UNCHANGED <<recording_active, record_start_requested,
                   record_stop_requested, recording_fps, record_filename,
                   metadata_records, frame_counter, lpVars, logVars>>

\* line 313
L_open_failed_flag ==
    /\ LoopStep("l313", "l315")
    /\ recording_active' = FALSE
    /\ UNCHANGED <<record_start_requested, record_stop_requested,
                   avi_recorder, recording_fps, record_filename,
                   metadata_records, frame_counter, lpVars, logVars>>

\* line 315
L_clear_start ==
    /\ LoopStep("l315", "l320")
    /\ record_start_requested' = FALSE
    /\ UNCHANGED <<recording_active, record_stop_requested, avi_recorder,
                   recording_fps, record_filename, metadata_records,
                   frame_counter, lpVars, logVars>>

\* the condition of line 320
StopPending == record_stop_requested /\ recording_active

\* line 320
L_check_stop ==
    /\ LoopStep("l320", IF StopPending THEN "l322" ELSE "l377")
    /\ UNCHANGED <<recVars, lpVars, logVars>>

\* lines 322-325: Close; an exception is printed and the encoder is left
\* as it was
L_close(ok) ==
    /\ LoopStep("l322", "l328")
    /\ avi_recorder' = IF avi_recorder # None /\ ok
                       THEN "closed" ELSE avi_recorder
    /\ UNCHANGED <<recording_active, record_start_requested,
                   record_stop_requested, recording_fps, record_filename,
                   metadata_records, frame_counter, lpVars, logVars>>

\* line 329: filename.rsplit(".", 1)[0] + "_metadata.csv"
CsvPath(filename) ==
    CASE filename = "a.avi" -> "a_metadata.csv"
      [] filename = "b.avi" -> "b_metadata.csv"
      [] OTHER -> None

\* lines 348-361: the row written for a record; a None label becomes ""
CsvRow(rec) ==
    [rec EXCEPT !.sync_label = IF rec.sync_label = None THEN ""
                               ELSE rec.sync_label]

\* line 328: a metadata file is written only for a path and a non-empty
\* list of records
CsvWanted == record_filename # None /\ metadata_records # <<>>

\* lines 328-364: the metadata file is written from metadata_records, or
\* the write raises and the exception is printed
L_write_csv(ok) ==
    /\ LoopStep("l328", "l367")
    /\ flush' = IF CsvWanted /\ ok
                THEN [serviced |-> TRUE, grabs |-> grab_no, written |-> TRUE,
                      path |-> CsvPath(record_filename),
                      rows |-> [i \in 1 .. Len(metadata_records) |->
                                   CsvRow(metadata_records[i])]]
                ELSE [serviced |-> TRUE, grabs |-> grab_no,
                      written |-> FALSE, path |-> None, rows |-> <<>>]
    /\ last_empty' = (grab_no = 0)
    /\ UNCHANGED <<recVars, lpVars, grab_no, open_result>>

\* line 367
L_reset_active ==
    /\ LoopStep("l367", "l368")
    /\ recording_active' = FALSE
    /\ UNCHANGED <<record_start_requested, record_stop_requested,
                   avi_recorder, recording_fps, record_filename,
                   metadata_records, frame_counter, lpVars, logVars>>

\* line 368
L_reset_stop ==
    /\ LoopStep("l368", "l369")
    /\ record_stop_requested' = FALSE
    /\ UNCHANGED <<recording_active, record_start_requested, avi_recorder,
                   recording_fps, record_filename, metadata_records,
                   frame_counter, lpVars, logVars>>

\* line 369
L_reset_recorder ==
    /\ LoopStep("l369", "l370")
    /\ avi_recorder' = None
    /\ UNCHANGED <<recording_active, record_start_requested,
                   record_stop_requested, recording_fps, record_filename,
                   metadata_records, frame_counter, lpVars, logVars>>

\* line 370
L_reset_records ==
    /\ LoopStep("l370", "l371")
    /\ metadata_records' = <<>>
    /\ UNCHANGED <<recording_active, record_start_requested,
                   record_stop_requested, avi_recorder, recording_fps,
                   record_filename, frame_counter, lpVars, logVars>>

\* line 371, the last statement of the servicing of a stop
L_reset_filename ==
    /\ LoopStep("l371", "l377")
    /\ record_filename' = None
    /\ flush' = NoFlush
    /\ grab_no' = 0
    /\ UNCHANGED <<recording_active, record_start_requested,
                   record_stop_requested, avi_recorder, recording_fps,
                   metadata_records, frame_counter, lpVars, last_empty,
                   open_result>>

\* lines 377-383: GetNextImage returns a complete frame ("frame"), returns
\* an incomplete one or raises ("none"); it raises once acquisition has
\* ended.  The camera delivers complete frames while fewer than MaxFrames
\* are counted and logged.
L_grab(outcome) ==
    /\ outcome = "frame"
          => /\ streaming
             /\ frame_counter < MaxFrames
             /\ Len(metadata_records) < MaxFrames
    /\ LoopStep("l377", IF outcome = "frame" THEN "l388" ELSE "l294")
    /\ grab_no' = IF outcome = "frame" /\ recording_active
                  THEN grab_no + 1 ELSE grab_no
    /\ UNCHANGED <<recVars, lpVars, flush, last_empty, open_result>>

\* mutant of RecordThisFrame: a frame grabbed after the stop was requested
\* is not recorded
RecordThisFrame_UnlessStopping ==
    recording_active /\ avi_recorder # None /\ ~record_stop_requested

\* the condition of line 388
RecordThisFrame == recording_active /\ avi_recorder # None

\* line 388 (and, for a frame that is not recorded, lines 436-444)
L_check_recording ==
    /\ LoopStep("l388", IF RecordThisFrame THEN "l390" ELSE "l294")
    /\ UNCHANGED <<recVars, lpVars, logVars>>

\* line 390: now = time.time()
L_sample_now ==
    /\ LoopStep("l390", "l391")
    /\ lp_now' = now
    /\ UNCHANGED <<recVars, lp_sync, lp_label, lp_end, lp_appended, logVars>>

\* lines 391-393, under self._sync_lock
L_sample_sync ==
    /\ LoopStep("l391", "l396")
    /\ lp_sync' = (lp_now <= sync_window_end)
    /\ lp_label' = IF lp_now <= sync_window_end THEN sync_label ELSE None
    /\ lp_end' = sync_window_end
    /\ UNCHANGED <<recVars, lp_now, lp_appended, logVars>>

\* line 396
L_count ==
    /\ LoopStep("l396", "l398")
    /\ frame_counter' = frame_counter + 1
    /\ UNCHANGED <<recording_active, record_start_requested,
                   record_stop_requested, avi_recorder, recording_fps,
                   record_filename, metadata_records, lpVars, logVars>>

\* lines 397-400: Append returns, or raises and the exception is printed
L_append(ok) ==
    /\ LoopStep("l398", "l422")
    /\ lp_appended' = ok
    /\ UNCHANGED <<recVars, lp_now, lp_sync, lp_label, lp_end, logVars>>

\* lines 422-431: the record, with system_time read from the clock at line
\* 427 (and lines 436-444, after which the locals of the iteration are
\* gone)
L_log ==
    /\ LoopStep("l422", "l294")
    /\ metadata_records' =
          Append(metadata_records,
                 [record_frame_index |-> frame_counter,
                  camera_frame_id |-> grab_no,
                  system_time |-> now,
                  sync_pulse |-> lp_sync,
                  sync_label |-> lp_label])
    /\ lp_now' = 0
    /\ lp_sync' = FALSE
    /\ lp_label' = None
    /\ lp_end' = 0
    /\ lp_appended' = FALSE
    /\ UNCHANGED <<recording_active, record_start_requested,
                   record_stop_requested, avi_recorder, recording_fps,
                   record_filename, frame_counter, logVars>>

NextCam ==
    \/ \E outcome \in {"ok", "no_cameras", "error_system", "error_camera"} :
          CAM_start(outcome)
    \/ CAM_stop
    \/ CAM_stop_st158
    \/ CAM_stop_st159
    \/ CAM_stop_st161
    \/ CAM_stop_st167
    \/ CAM_stop_st170
    \/ CAM_stop_st177
    \/ CAM_stop_st185
    \/ \E filename \in Paths, fps \in FpsValues :
          CAM_start_recording(filename, fps)
    \/ CAM_sr270
    \/ CAM_sr271
    \/ CAM_sr272
    \/ CAM_sr273
    \/ CAM_sr274
    \/ CAM_sr276
    \/ CAM_stop_recording
    \/ CAM_sp287
    \/ L_while
    \/ L_check_start
    \/ L_new_recorder
    \/ \E ok \in BOOLEAN : L_open(ok)
    \/ L_set_active
    \/ L_open_failed
    \/ L_open_failed_flag
    \/ L_clear_start
    \/ L_check_stop
    \/ \E ok \in BOOLEAN : L_close(ok)
    \/ \E ok \in BOOLEAN : L_write_csv(ok)
    \/ L_reset_active
    \/ L_reset_stop
    \/ L_reset_recorder
    \/ L_reset_records
    \/ L_reset_filename
    \/ \E outcome \in {"frame", "none"} : L_grab(outcome)
    \/ L_check_recording
    \/ L_sample_now
    \/ L_sample_sync
    \/ L_count
    \/ \E ok \in BOOLEAN : L_append(ok)
    \/ L_log

SpecCam == Init /\ [][NextCam]_vars

\* the steps of the acquisition thread
LoopNext ==
    \/ L_while
    \/ L_check_start
    \/ L_new_recorder
    \/ \E ok \in BOOLEAN : L_open(ok)
    \/ L_set_active
    \/ L_open_failed
    \/ L_open_failed_flag
    \/ L_clear_start
    \/ L_check_stop
    \/ \E ok \in BOOLEAN : L_close(ok)
    \/ \E ok \in BOOLEAN : L_write_csv(ok)
    \/ L_reset_active
    \/ L_reset_stop
    \/ L_reset_recorder
    \/ L_reset_records
    \/ L_reset_filename
    \/ \E outcome \in {"frame", "none"} : L_grab(outcome)
    \/ L_check_recording
    \/ L_sample_now
    \/ L_sample_sync
    \/ L_count
    \/ \E ok \in BOOLEAN : L_append(ok)
    \/ L_log

(***************************************************************************)
(* MainWindow (gui/main.py).  The click handlers run in the GUI thread,    *)
(* one at a time; a handler calls the CameraController, whose methods run  *)
(* statement by statement against the acquisition thread, and sets         *)
(* self.state when the call has returned.  A button that _apply_state      *)
(* disabled cannot be clicked.                                             *)
(***************************************************************************)
\* a step of a handler outside the CameraController: position and state of
\* the controller are left alone, only the marker of returned calls is reset
\* when a handler begins
HandlerStep(returned) ==
    /\ gui_pc = "idle"
    /\ api_returned' = returned
    /\ UNCHANGED <<devVars, recVars, lp_pc, gui_pc, g_filename, g_fps,
                   sr_result, lpVars, logVars, startVars>>
    /\ UNCHANGED <<pulseVars, callVars, raceVars, syncVars>>

\* on_detect_clicked (lines 152-165); found is what detect_first_camera
\* reports
MW_detect_clicked(found) ==
    /\ mw_handler = None
    /\ mw_state \in {"IDLE", "CAMERA_DETECTED"}
    /\ HandlerStep(api_returned)
    /\ mw_state' = IF found THEN "CAMERA_DETECTED" ELSE "IDLE"
    /\ UNCHANGED <<mw_preview_running, mw_handler>>

\* on_preview_clicked is entered (lines 201-202, 217-220); the button is
\* enabled in CAMERA_DETECTED and PREVIEWING
MW_preview_clicked ==
    /\ mw_handler = None
    /\ mw_state \in {"CAMERA_DETECTED", "PREVIEWING"}
    /\ HandlerStep(FALSE)
    /\ mw_handler' = IF ~mw_preview_running THEN "preview_start"
                     ELSE "preview_stop"
    /\ UNCHANGED <<mw_state, mw_preview_running>>

\* line 203: self.camera.start()
MW_call_start(outcome) ==
    /\ mw_handler = "preview_start"
    /\ ~api_returned
    /\ CAM_start(outcome)

\* lines 204-214: the result of start
MW_preview_started ==
    /\ mw_handler = "preview_start"
    /\ api_returned
    /\ HandlerStep(TRUE)
    /\ mw_preview_running' = (start_result.ok \/ mw_preview_running)
    /\ mw_state' = IF start_result.ok THEN "PREVIEWING" ELSE mw_state
    /\ mw_handler' = None

\* lines 221-222: self.camera.stop()
MW_call_stop ==
    /\ mw_handler = "preview_stop"
    /\ ~api_returned
    /\ CAM_stop

\* lines 223-228
MW_preview_stopped ==
    /\ mw_handler = "preview_stop"
    /\ api_returned
    /\ HandlerStep(TRUE)
    /\ mw_preview_running' = FALSE
    /\ mw_state' = "CAMERA_DETECTED"
    /\ mw_handler' = None

\* on_record_clicked is entered (lines 232, 245); the button is enabled in
\* PREVIEWING and RECORDING
MW_record_clicked ==
    /\ mw_handler = None
    /\ mw_state \in {"PREVIEWING", "RECORDING"}
    /\ HandlerStep(FALSE)
    /\ mw_handler' = IF mw_state = "PREVIEWING" THEN "record_start"
                     ELSE "record_stop"
    /\ UNCHANGED <<mw_state, mw_preview_running>>

\* lines 234-237: self.camera.start_recording(filename, fps=30.0)
MW_call_start_recording(filename) ==
    /\ mw_handler = "record_start"
    /\ ~api_returned
    /\ CAM_start_recording(filename, 30)

\* lines 238-242: the result of start_recording
MW_record_started ==
    /\ mw_handler = "record_start"
    /\ api_returned
    /\ HandlerStep(TRUE)
    /\ mw_state' = IF sr_result.ok THEN "RECORDING" ELSE mw_state
    /\ mw_handler' = None
    /\ UNCHANGED mw_preview_running

\* line 246: self.camera.stop_recording()
MW_call_stop_recording ==
    /\ mw_handler = "record_stop"
    /\ ~api_returned
    /\ CAM_stop_recording

\* lines 247-249
MW_record_stopped ==
    /\ mw_handler = "record_stop"
    /\ api_returned
    /\ HandlerStep(TRUE)
    /\ mw_state' = "PREVIEWING"
    /\ mw_handler' = None
    /\ UNCHANGED mw_preview_running

NextGui ==
    \/ \E found \in BOOLEAN : MW_detect_clicked(found)
    \/ MW_preview_clicked
    \/ \E outcome \in {"ok", "no_cameras", "error_system", "error_camera"} :
          MW_call_start(outcome)
    \/ MW_preview_started
    \/ MW_call_stop
    \/ MW_preview_stopped
    \/ MW_record_clicked
    \/ \E filename \in Paths : MW_call_start_recording(filename)
    \/ MW_record_started
    \/ MW_call_stop_recording
    \/ MW_record_stopped
    \/ CAM_stop_st158
    \/ CAM_stop_st159
    \/ CAM_stop_st161
    \/ CAM_stop_st167
    \/ CAM_stop_st170
    \/ CAM_stop_st177
    \/ CAM_stop_st185
    \/ CAM_sr270
    \/ CAM_sr271
    \/ CAM_sr272
    \/ CAM_sr273
    \/ CAM_sr274
    \/ CAM_sr276
    \/ CAM_sp287
    \/ LoopNext

SpecGui == Init /\ [][NextGui]_vars

\* previews started and stopped, with recordings requested, and the
\* acquisition thread scheduled as long as it can run: none of its
\* statements blocks for ever (GetNextImage returns or raises, Close and the
\* file write return or raise)
NextExit ==
    \/ CAM_start("ok")
    \/ CAM_stop
    \/ CAM_stop_st158
    \/ CAM_stop_st159
    \/ CAM_stop_st161
    \/ CAM_stop_st167
    \/ CAM_stop_st170
    \/ CAM_stop_st177
    \/ CAM_stop_st185
    \/ CAM_start_recording("a.avi", 30)
    \/ CAM_sr270
    \/ CAM_sr271
    \/ CAM_sr272
    \/ CAM_sr273
    \/ CAM_sr274
    \/ CAM_sr276
    \/ LoopNext

SpecExit == Init /\ [][NextExit]_vars /\ WF_vars(LoopNext)

(***************************************************************************)
(* One preview in which a recording is started and frames are logged,      *)
(* while the clock runs and notify_sync_pulse_window is called: the        *)
(* specification under which the sync columns of the metadata records are  *)
(* checked.                                                                *)
(***************************************************************************)
NextStamp ==
    \/ CAM_start("ok")
    \/ CAM_start_recording("a.avi", 30)
    \/ CAM_sr270
    \/ CAM_sr271
    \/ CAM_sr272
    \/ CAM_sr273
    \/ CAM_sr274
    \/ CAM_sr276
    \/ L_while
    \/ L_check_start
    \/ L_new_recorder
    \/ \E ok \in BOOLEAN : L_open(ok)
    \/ L_set_active
    \/ L_open_failed
    \/ L_open_failed_flag
    \/ L_clear_start
    \/ L_check_stop
    \/ \E outcome \in {"frame", "none"} : L_grab(outcome)
    \/ L_check_recording
    \/ L_sample_now
    \/ L_sample_sync
    \/ L_count
    \/ \E ok \in BOOLEAN : L_append(ok)
    \/ L_log
    \/ \E width_s \in SyncWidths : Notify(width_s, "x")
    \/ Tick

SpecStamp == Init /\ [][NextStamp]_vars

(***************************************************************************)
(* Claims about the PulseManager (checked under SpecPulse).                *)
(***************************************************************************)
QueueIds == {pm_queue[i].id : i \in 1 .. Len(pm_queue)}
HeldIds == {wk_req[w].id : w \in Workers}
ServedIds == {served[i] : i \in 1 .. Len(served)}

\* everything of the PulseManager and its line except the call history
pmState == <<daqVars, pm_started, pm_stop_event, pm_queue, pm_thread,
             pm_pulse_active, wk_pc, wk_req, wk_exc, wk_idle, pm_pc,
             nthreads, served, restored, cleared, discarded>>

\* C1, as stated: when a worker finishes handling a request (the step that
\* clears the flag and returns to the loop test) the line is at its idle
\* level and is_pulse_active is false.
C1_IdleOnceHandled ==
    [][\A w \in Workers :
          (wk_pc[w] = "clear" /\ wk_pc'[w] = "loop")
              => (line' = IdleLevel /\ ~pm_pulse_active')]_vars

\* C1, as amended: every request whose active-level write was attempted is
\* either still inside its pulse, or has had its idle-level write attempted
\* and then the flag cleared (also when the active-level write raised); the
\* step after the idle-level write is the flag clear; an idle-level write
\* that is issued and does not raise leaves the line at idle; and the step
\* that finishes the handling leaves is_pulse_active false.
C1_RestoreAlwaysAttempted ==
    /\ [](\A i \in 1 .. Len(served) :
             \/ \E w \in Workers : /\ wk_req[w].id = served[i]
                                   /\ wk_pc[w] \in {"sleep", "low"}
             \/ \E w \in Workers : /\ wk_req[w].id = served[i]
                                   /\ wk_pc[w] = "clear"
                                   /\ served[i] \in restored
             \/ served[i] \in restored /\ served[i] \in cleared)
    /\ [][\A w \in Workers :
             /\ (wk_pc[w] = "low" /\ wk_pc'[w] # "low")
                    => /\ wk_pc'[w] = "clear"
                       /\ wk_idle'[w] = "written" => line' = IdleLevel
             /\ (wk_pc[w] = "clear" /\ wk_pc'[w] # "clear")
                    => ~pm_pulse_active']_vars

\* C1 witness: a worker whose active-level write raised has made its
\* idle-level write, the line is at idle, and the flag clear is next.
C1_Witness ==
    \E w \in Workers : /\ wk_pc[w] = "clear"
                       /\ wk_exc[w]
                       /\ wk_idle[w] = "written"
                       /\ wk_req[w].id \in restored
                       /\ line = IdleLevel

\* C2, as stated: requests are served in the order they were accepted, and
\* a request's active-level write is not attempted before the idle-level
\* write of every request served before it.
C2_FifoNoOverlap ==
    /\ \A i, j \in 1 .. Len(served) : i < j => served[i] < served[j]
    /\ \A i \in 1 .. Len(served) - 1 : served[i] \in restored

\* C3, as stated: no accepted request is emitted twice, and none is taken
\* off the queue and thrown away while the stop signal is clear.
C3_ConsumedExactlyOnce ==
    /\ \A i, j \in 1 .. Len(served) : i # j => served[i] # served[j]
    /\ discarded = {}

\* C4: a request_pulse call made while the manager is not started fails
\* with "not started" and changes nothing of the manager, its workers or
\* the line; the call is never in the queue, never held by a worker and
\* never emitted.
C4_NotStartedRejected ==
    /\ [](\A i \in 1 .. Len(calls) :
             calls[i] = "not_started"
                 => i \notin QueueIds \cup HeldIds \cup ServedIds)
    /\ [][Len(calls') > Len(calls) /\ ~pm_started
             => /\ calls'[Len(calls')] = "not_started"
                /\ pm_last'.res = "not_started"
                /\ UNCHANGED pmState]_vars

\* C4 witness: a request_pulse call was refused after the manager had been
\* started and stopped again.
C4_Witness ==
    /\ pm_last = [op |-> "request_pulse", res |-> "not_started"]
    /\ nthreads > 0
    /\ ~pm_started

\* C5: a request_pulse call with a width <= 0 on a started manager returns
\* without error and changes nothing of the manager, its workers or the
\* line; the call is never in the queue, never held by a worker and never
\* emitted.
C5_NonPositiveWidthDropped ==
    /\ [](\A i \in 1 .. Len(calls) :
             calls[i] = "ignored"
                 => i \notin QueueIds \cup HeldIds \cup ServedIds)
    /\ [][\A arg \in RequestArgs :
             (PM_request_pulse(arg) /\ pm_started /\ ~arg.none /\ arg.v <= 0)
                 => /\ calls'[Len(calls')] = "ignored"
                    /\ pm_last'.res = "ignored"
                    /\ UNCHANGED pmState]_vars

\* C5 witness: a zero-or-negative width was dropped while a request was
\* waiting in the queue of a started manager.
C5_Witness ==
    /\ pm_last = [op |-> "request_pulse", res |-> "ignored"]
    /\ pm_started
    /\ pm_queue # <<>>

(***************************************************************************)
(* Claims about the sync window (checked under SpecSync).                  *)
(***************************************************************************)
\* C6: every applied notify call sets window_end to the larger of the
\* previous window_end and that call's now + width, and sets the label to
\* that call's label; window_end never decreases, and the label changes
\* only when a call is applied, so it is always the label of the call
\* applied last.
C6_WindowMaxLabelLast ==
    /\ [](sync_window_end >= last_end)
    /\ [][/\ sync_window_end' >= sync_window_end
          /\ \A n \in Notifiers :
                (nt_pc[n] = "apply" /\ nt_pc'[n] = "idle")
                    => /\ sync_window_end' =
                              IF sync_window_end >= nt_now[n] + nt_width[n]
                              THEN sync_window_end
                              ELSE nt_now[n] + nt_width[n]
                       /\ sync_label' = nt_label[n]
          /\ sync_label' # sync_label
                => \E n \in Notifiers :
                      nt_pc[n] = "apply" /\ nt_pc'[n] = "idle"]_vars

\* C6 witness: a call labelled "y" was applied last, with no other call in
\* progress; it did not extend the window (its end lies before
\* window_end) and the label is its label.
C6_Witness ==
    /\ last_end # 0
    /\ last_end < sync_window_end
    /\ sync_label = "y"
    /\ \A n \in Notifiers : nt_pc[n] = "idle"

(***************************************************************************)
(* Claims about the recording controls (checked under SpecCam).            *)
(***************************************************************************)
\* C7: the sequence ids (record_frame_index) of the metadata records
\* accumulated for a session are exactly 1, 2, ..., n in order, whatever the
\* interleaving of start_recording / stop_recording with the acquisition
\* loop.
C7_SequenceIdsContiguous ==
    \A i \in 1 .. Len(metadata_records) :
        metadata_records[i].record_frame_index = i

\* C8: a start_recording call made while acquisition is not running, or
\* while a session is active or requested, returns at once with a refusal
\* and leaves the target path, the target fps, the frame counter, the
\* metadata records and both request flags (and the rest of the recording
\* state) unchanged.
C8_RejectedStartNoSideEffect ==
    [][\A filename \in Paths, fps \in FpsValues :
          (/\ CAM_start_recording(filename, fps)
           /\ \/ ~acquiring
              \/ ~cam
              \/ recording_active
              \/ record_start_requested)
              => /\ gui_pc' = "idle"
                 /\ sr_result'.msg \in {"not_acquiring", "already"}
                 /\ UNCHANGED <<record_filename, recording_fps, frame_counter,
                                metadata_records, record_start_requested,
                                record_stop_requested, recording_active,
                                avi_recorder>>]_vars

\* C8 witness: a call was refused while a session with logged frames was
\* active, and the session's path and records are still there.
C8_Witness ==
    /\ gui_pc = "idle"
    /\ sr_result.msg = "already"
    /\ recording_active
    /\ record_filename # None
    /\ metadata_records # <<>>
    /\ frame_counter > 0

\* C9: a start_recording call refused because a session is active or
\* requested returns ok = false, as a call refused because acquisition is
\* not running does.
C9_BusyRejectedWithFailure ==
    sr_result.msg \in {"already", "not_acquiring"} => ~sr_result.ok

C11_EmptySessionThenFreshCount ==
    /\ (flush.serviced /\ flush.grabs = 0) => ~flush.written
    /\ (last_empty /\ metadata_records # <<>>)
          => metadata_records[1].record_frame_index = 1

C13_SyncColumnsMatchWallTime ==
    [][(lp_pc = "l422" /\ lp_pc' = "l294")
          => LET rec == metadata_records'[Len(metadata_records')]
             IN  /\ rec.system_time = lp_now
                 /\ rec.sync_pulse = (rec.system_time <= lp_end)
                 /\ rec.sync_label = IF rec.system_time <= lp_end
                                     THEN lp_label ELSE None]_vars

(***************************************************************************)
(* Claims about the encoder and the servicing of requests (SpecCam).       *)
(***************************************************************************)
\* C14: the controller holds at most one encoder: a new one is created only
\* when none is held and no session is active, and an active session always
\* has its encoder; the encoder and recording_active change only in steps
\* of the acquisition thread, never in a step of start_recording,
\* stop_recording, start or stop.
C14_SingleSessionLoopOwned ==
    /\ [](/\ lp_pc = "l304" => (avi_recorder = None /\ ~recording_active)
          /\ recording_active => avi_recorder \in {"open", "closed"})
    /\ [][(avi_recorder' # avi_recorder \/ recording_active' # recording_active)
             => (lp_pc' # lp_pc /\ gui_pc' = gui_pc)]_vars

\* C14 witness: stop() has reached its teardown while a session is open
\* (its wait timed out); the encoder is still open and untouched.
C14_Witness ==
    /\ gui_pc = "st185"
    /\ recording_active
    /\ avi_recorder = "open"
    /\ metadata_records # <<>>

(***************************************************************************)
(* Claims about failed starts.                                             *)
(***************************************************************************)
\* C18 (SpecPulse): after a PulseManager.start that failed because the
\* line could not be started, the PulseManager and the line are both not
\* started, so that the next start opens the hardware again.
C18_FailedLineStartNotStarted ==
    pm_last = [op |-> "start", res |-> "error"]
        => (~pm_started /\ ~daq_started)

(***************************************************************************)
(* Claims about the digital output line (checked under SpecLine).          *)
(***************************************************************************)
\* C15: stop never raises and leaves the line stopped; called on a line
\* that is not started it changes nothing, called on a started line it
\* releases the task.  set_high and set_low called while the line is not
\* started issue no hardware write, do not raise and change nothing.  The
\* stub's stop leaves it stopped and its set_high / set_low change nothing.
C15_StopIdempotentSetGuarded ==
    [][/\ \A ok \in BOOLEAN :
             DO_stop(ok)
                => /\ ~daq_started'
                   /\ ~stub_started'
                   /\ ~do_last'.raised
                   /\ daq_started => daq_task' = None
                   /\ ~daq_started => UNCHANGED daqVars
       /\ \A ok \in BOOLEAN :
             (DO_set_high(ok) \/ DO_set_low(ok))
                => /\ UNCHANGED stub_started
                   /\ ~daq_started => /\ UNCHANGED daqVars
                                      /\ ~do_last'.wrote
                                      /\ ~do_last'.raised]_vars

\* C15 witness: stop was called on a line that was not started, after
\* earlier calls, and the line is stopped.
C15_Witness ==
    /\ do_last.op = "stop"
    /\ ~do_last.started_before
    /\ do_calls >= 3
    /\ ~daq_started
    /\ daq_task = None
    /\ ~hw_error

\* C16: as long as no hardware operation has failed, the hardware-backed
\* line and the stub are in the same started/stopped state after every
\* call, and no call on either has raised.
C16_StubSubstitutable ==
    ~hw_error => (stub_started = daq_started /\ ~do_last.raised)

\* C16 witness: after start, set_high, stop, set_low without a hardware
\* failure.
C16_Witness ==
    /\ ~hw_error
    /\ do_calls >= 4
    /\ do_last.op = "set_low"
    /\ ~do_last.started_before
    /\ line = IdleLevel
    /\ daq_task = None

\* C17: when CameraController.start has reported a failure (no camera, or an
\* error while opening it), the controller is not acquiring, holds no
\* camera handle and no acquisition thread, no acquisition thread runs and
\* the system instance is released; once the caller is back outside the
\* methods, a new start can succeed.
C17_FailedStartLeavesNotAcquiring ==
    (~in_start /\ start_result \in {StartNoCamerasResult, StartErrorResult}) =>
        /\ ~start_result.ok
        /\ ~acquiring
        /\ ~cam
        /\ ~acq_thread
        /\ ~LoopAlive
        /\ ~system
        /\ gui_pc = "idle" =>
              ENABLED (CAM_start("ok") /\ acquiring' /\ cam' /\ lp_pc' = "l294"
                          /\ start_result' = StartedResult)

\* start failed in the except clause after an earlier preview had recorded
\* frames, and stop() has returned
C17_Witness ==
    /\ gui_pc = "idle"
    /\ start_result = StartErrorResult
    /\ cam_stop_event
    /\ frame_counter > 0
    /\ ~acquiring

\* C19: once the loop has serviced a start request (line 315 has run), the
\* start-request flag is clear, whether Open succeeded or raised; after a
\* failed Open the recording is inactive, no encoder is held, and the loop
\* does not try to open again until a start_recording call raises the flag
\* again.
C19_StartRequestServicedOnce ==
    /\ (open_result = "ok" /\ lp_pc \notin {"l309", "l315"}) =>
          ~record_start_requested
    /\ (open_result = "failed" /\ lp_pc \notin {"l312", "l313", "l315"}) =>
          /\ ~record_start_requested
          /\ ~recording_active
          /\ avi_recorder = None
          /\ lp_pc \notin {"l304", "l308", "l309"}

\* Open has failed, the request has been serviced, and the loop has gone
\* through line 302 again without opening
C19_Witness ==
    /\ open_result = "failed"
    /\ lp_pc = "l320"
    /\ ~record_start_requested
    /\ avi_recorder = None
    /\ sr_result = SR_RequestedResult
    /\ gui_pc = "idle"

\* C20: when the loop finishes servicing a stop request (line 371 has run),
\* the recording is inactive, no encoder is held, the metadata list is
\* empty, no target path is set, and the start-request and stop-request
\* flags are both clear, whether or not Close or the metadata write raised.
C20_StopServicingResetsAll ==
    [][(lp_pc = "l371" /\ lp_pc' = "l377") =>
          /\ ~recording_active'
          /\ avi_recorder' = None
          /\ metadata_records' = <<>>
          /\ record_filename' = None
          /\ ~record_start_requested'
          /\ ~record_stop_requested']_vars

\* C21: a grab that fails or returns an incomplete frame leaves the frame
\* counter and the metadata list unchanged, and a frame is counted and
\* given a record only if its Append to the encoder succeeded.
C21_CountsOnlyAppendedFrames ==
    [][/\ (lp_pc = "l377" /\ lp_pc' = "l294") =>
             UNCHANGED <<frame_counter, metadata_records>>
       /\ Len(metadata_records') > Len(metadata_records) =>
             lp_appended]_vars

\* C22: however NIDaqDO.stop interleaves with set_high / set_low calls of
\* other threads, every write (the writes of set_high / set_low and the
\* idle write of stop) goes to a Task that is still open, and no write is
\* issued once stop has returned, until the line is started again.
C22_NoWriteOnClosedHandle ==
    [][\A th \in RaceThreads :
          /\ (ni_pc[th] = "k77" /\ ni_pc'[th] = "idle") =>
                (ni_t[th] \in ni_open /\ ~ni_stopped)
          /\ (ni_pc[th] = "p59" /\ ni_pc'[th] = "p63") =>
                ni_t[th] \in ni_open]_vars

\* a set call passed the guard of line 71 while the line was started, and
\* under the lock finds the Task gone because stop has taken it
C22_Witness ==
    \E th \in Setters :
        /\ ni_pc[th] = "k75"
        /\ ni_t[th] = NoTask
        /\ ni_pc[Ctl] \in {"p55", "p59", "p63", "p68"}

\* C23: whatever start and stop calls were made, at most one worker thread
\* is inside the loop of _run waiting for or holding a request taken from
\* the queue.
C23_SingleConsumer ==
    Cardinality({w \in Workers : wk_pc[w] \in {"get", "check"}}) <= 1

\* C24 (state after stop): once PulseManager.stop has returned, and until
\* the next call, the manager is not started, the line is not started and
\* no pulse is marked active.
C24_StoppedAfterStop ==
    (pm_pc = "idle" /\ pm_last = [op |-> "stop", res |-> "ok"]) =>
        /\ ~pm_started
        /\ ~daq_started
        /\ ~pm_pulse_active

\* C25: once the stop signal is set the running acquisition thread
\* eventually exits; a thread that finds the signal set at the top of an
\* iteration leaves the loop there, and a thread that has left the loop
\* opens no session.
C25_LoopExitsOnStopSignal ==
    /\ (cam_stop_event /\ LoopAlive) ~> ~LoopAlive
    /\ [][(lp_pc = "l294" /\ cam_stop_event) => lp_pc' \in {"l294", "exit"}]_vars
    /\ [][~LoopAlive => UNCHANGED <<avi_recorder, recording_active>>]_vars

\* the stop signal is set while the thread is inside an iteration with a
\* session open and a frame being recorded
C25_Witness ==
    /\ cam_stop_event
    /\ lp_pc = "l396"
    /\ recording_active
    /\ gui_pc = "st170"

\* C26: when the caller is outside the methods and the controller is not
\* acquiring (stop has returned, or no preview was ever started), no
\* recording session is open: recording_active is false and no encoder is
\* held open.
C26_NoSessionAfterStop ==
    (gui_pc = "idle" /\ ~acquiring) =>
        (~recording_active /\ avi_recorder # "open")

\* C27: when the loop opens the encoder for a start request (line 308), the
\* target path and the frame rate are the ones passed to the start_recording
\* call that was accepted last.
C27_ServicedWithRequestedTarget ==
    [][(lp_pc = "l308" /\ lp_pc' # "l308") =>
          (record_filename = g_filename /\ recording_fps = g_fps)]_vars

\* C28: at the top of an iteration of the acquisition loop, a raised stop
\* request belongs to a session that is active or to a start request that
\* is pending.
C28_NoStaleStopRequest ==
    (lp_pc = "l294" /\ record_stop_requested) =>
        (recording_active \/ record_start_requested)

\* C29: whenever MainWindow is in state RECORDING and no click is being
\* handled, the CameraController has a session active or a start request
\* pending (checked here for the requests whose Open did not fail).
C29_RecordingStateHasSession ==
    (mw_state = "RECORDING" /\ mw_handler = None /\ open_result # "failed") =>
        (recording_active \/ record_start_requested)

\* C30: whenever the PulseManager is started and the caller is outside its
\* methods, a worker thread is alive.
C30_WorkerAliveWhileStarted ==
    (pm_started /\ pm_pc = "idle") =>
        \E w \in Workers : wk_pc[w] \notin {"unborn", "dead"}

====
